---- MODULE Spec2Model ----
(***************************************************************************)
(* A state-machine model of paxos_asyncio: the coordinator's registry, the *)
(* processors' run loops and mailboxes, the acceptor and proposer message  *)
(* handlers, the proposal generator and the monitor's convergence check.   *)
(*                                                                         *)
(* One step of the model is one stretch of a coroutine between two awaits  *)
(* at which another task can observe or change what the stretch touches.   *)
(* A processor's own fields are written only by its own task, so a handler *)
(* body is one step and each send_message_to of a handler is one step.     *)
(***************************************************************************)
EXTENDS Integers, Sequences, FiniteSets, TLC

\* ------------------------------------------------------------ bounds

\* Proposal rounds one proposer may start (get_proposal calls).
MaxRounds == 2
\* loop_num is kept exactly below this value (see NextLoopNum).
MaxLoop == 2
\* Largest generator seed drawn by InitGenerator.
MaxSeed == 1
\* Proposal rounds in SpecGenerator.
GenRounds == 3
\* Largest proposal number and value of the letters fed in SpecAcceptor.
MaxNum == 1
\* Most letters fed to the acceptor in SpecAcceptor.
MaxMailbox == 3
\* Most acceptors registered in SpecQuorum.
MaxAcceptors == 3
\* Most processors registered in SpecRegister.
MaxProcessors == 3

\* ------------------------------------------------------- program constants

\* Python's None, for Optional[int] fields; every int of the program modelled
\* here (ids, seeds, numbers, values) is >= 0.
None == -1
\* `self.acceptors = None`: an Optional[List[int]] that is not a list.
NoneList == <<None>>
\* IncProposalGenerator.get_proposal: self.x += 1000
GenStep == 1000
\* OneShotProposer passes propose_every = 2**32; the model checker's integers
\* end at 2**31 - 1, and loop_num never exceeds MaxLoop, so any value above
\* MaxLoop gives the same `loop_num % propose_every`.
OneShotEvery == 2147483647
\* Monitor.run: if self.loop_num % 10 == 0
MonitorEvery == 10

VARIABLES
    processors,           \* Coordinator.processors: position -> class of the processor
    id,                   \* Processor.id of the processor at each position
    alive,                \* Processor.alive
    mailbox,              \* MessageMixin.mailbox: a deque of letters
    pc,                   \* where each processor's run() coroutine stands
    pending,              \* letters the handler in progress has still to send
    highest_number_seen,  \* Acceptor.highest_number_seen
    accepted_number,      \* Acceptor.accepted_number
    accepted_value,       \* Acceptor.accepted_value
    propose_every,        \* Proposer.propose_every
    x,                    \* IncProposalGenerator.x of the proposer's generator
    loop_num,             \* Proposer.loop_num, Monitor.loop_num
    proposal,             \* Proposer.proposal
    number,               \* Proposer.number
    acceptors,            \* Proposer.acceptors
    promises,             \* Proposer.promises: a dict frm -> PromiseMessage
    chosen                \* history: values a majority of acceptors has held

vars == <<processors, id, alive, mailbox, pc, pending, highest_number_seen,
          accepted_number, accepted_value, propose_every, x, loop_num,
          proposal, number, acceptors, promises, chosen>>

acceptorVars == <<highest_number_seen, accepted_number, accepted_value>>
proposerVars == <<x, proposal, number, acceptors, promises>>

\* ------------------------------------------------------------ helpers

Min(a, b) == IF a < b THEN a ELSE b
Max(a, b) == IF a > b THEN a ELSE b
Range(s) == {s[k] : k \in DOMAIN s}

Ids == DOMAIN processors
NumProcessors == Cardinality(Ids)

\* ------------------------------------------------------------ messages

PrepareMessage(n) == [type |-> "prepare", number |-> n]
PromiseMessage(n, pn, pv) ==
    [type |-> "promise", number |-> n, prev_acc_number |-> pn, prev_acc_value |-> pv]
AcceptMessage(n, v) == [type |-> "accept", number |-> n, proposal |-> v]
Letter(frm, to, msg) == [frm |-> frm, to |-> to, message |-> msg]

\* ------------------------------------------------------------ coordinator

\* Fault injection for C15: register returning len(self.processors).
RegisterId_Len(len) == len

\* Coordinator.register: id = len(self.processors) - 1, after the append.
RegisterId(len) == len - 1

RECURSIVE AcceptorsFrom(_)
AcceptorsFrom(i) ==
    IF i >= NumProcessors THEN <<>>
    ELSE (IF processors[i] = "Acceptor" THEN <<i>> ELSE <<>>) \o AcceptorsFrom(i + 1)

\* Coordinator._get_acceptors(exclude=[]): the acceptors in registry order.
GetAcceptors == AcceptorsFrom(0)

AcceptorIds == Range(GetAcceptors)
ProposerIds == {i \in Ids : processors[i] = "Proposer"}

\* random.sample(population, k): any k distinct elements in any order.
Sample(population, k) ==
    {s \in [1..k -> Range(population)] : \A i, j \in 1..k : i # j => s[i] # s[j]}

\* int(0.5*len(acceptors)+1)
\* Fault injection for C8: a quorum of half the acceptors, rounded up.
GetQuorumOfAcceptorIds_Half ==
    LET acc == AcceptorsFrom(0)
        num == (Len(acc) + 1) \div 2
    IN {[k \in 1..num |-> id[s[k]]] : s \in Sample(acc, num)}

MinNum(len) == (len \div 2) + 1

\* Coordinator.get_quorum_of_acceptor_ids(exclude=[]): the set of lists it can return.
GetQuorumOfAcceptorIds ==
    LET acc == GetAcceptors
        min_num == MinNum(Len(acc))
        max_num == Len(acc)
        num == Min(max_num, Max(min_num, Len(acc)))
    IN {[k \in 1..num |-> id[s[k]]] : s \in Sample(acc, num)}

\* ------------------------------------------------------------ acceptor

AcceptorState(i) ==
    [highest_number_seen |-> highest_number_seen[i],
     accepted_number |-> accepted_number[i],
     accepted_value |-> accepted_value[i]]

\* Fault injection for C27: the Promise addressed to the acceptor itself.
HandlePrepareMessage_ToSelf(self, s, msg, frm) ==
    IF s.highest_number_seen = None \/ s.highest_number_seen < msg.number
    THEN [state |-> [s EXCEPT !.highest_number_seen = msg.number],
          out |-> <<Letter(self, self,
                     PromiseMessage(msg.number, s.accepted_number, s.accepted_value))>>]
    ELSE [state |-> s, out |-> <<>>]

\* Fault injection for C19: the Promise carrying highest_number_seen as the
\* previously accepted number.
HandlePrepareMessage_Seen(self, s, msg, frm) ==
    IF s.highest_number_seen = None \/ s.highest_number_seen < msg.number
    THEN [state |-> [s EXCEPT !.highest_number_seen = msg.number],
          out |-> <<Letter(self, frm,
                     PromiseMessage(msg.number, s.highest_number_seen, s.accepted_value))>>]
    ELSE [state |-> s, out |-> <<>>]

\* Fault injection for C4: the comparison of _handle_prepare_message as <=.
HandlePrepareMessage_Le(self, s, msg, frm) ==
    IF s.highest_number_seen = None \/ s.highest_number_seen <= msg.number
    THEN [state |-> [s EXCEPT !.highest_number_seen = msg.number],
          out |-> <<Letter(self, frm,
                     PromiseMessage(msg.number, s.accepted_number, s.accepted_value))>>]
    ELSE [state |-> s, out |-> <<>>]

\* Acceptor._handle_prepare_message: the new state and the letters sent.
HandlePrepareMessage(self, s, msg, frm) ==
    IF s.highest_number_seen = None \/ s.highest_number_seen < msg.number
    THEN [state |-> [s EXCEPT !.highest_number_seen = msg.number],
          out |-> <<Letter(self, frm,
                     PromiseMessage(msg.number, s.accepted_number, s.accepted_value))>>]
    ELSE [state |-> s, out |-> <<>>]

\* Fault injection for C29: _handle_accept_message without its test of the
\* number.
HandleAcceptMessage_Any(self, s, msg, frm) ==
    [state |-> [s EXCEPT !.accepted_number = msg.number,
                         !.accepted_value = msg.proposal],
     out |-> <<>>]

\* Fault injection for C5: _handle_accept_message taking any number that is
\* not below highest_number_seen.
HandleAcceptMessage_Ge(self, s, msg, frm) ==
    IF s.highest_number_seen = None \/ msg.number >= s.highest_number_seen
    THEN [state |-> [s EXCEPT !.accepted_number = msg.number,
                              !.accepted_value = msg.proposal],
          out |-> <<>>]
    ELSE [state |-> s, out |-> <<>>]

\* Fault injection for C6: _handle_accept_message adding the proposal to the
\* value held (+= for =).
HandleAcceptMessage_Add(self, s, msg, frm) ==
    IF msg.number = s.highest_number_seen
    THEN [state |-> [s EXCEPT !.accepted_number = msg.number,
                              !.accepted_value =
                                  IF s.accepted_value = None THEN msg.proposal
                                  ELSE s.accepted_value + msg.proposal],
          out |-> <<>>]
    ELSE [state |-> s, out |-> <<>>]

\* Acceptor._handle_accept_message
HandleAcceptMessage(self, s, msg, frm) ==
    IF msg.number = s.highest_number_seen
    THEN [state |-> [s EXCEPT !.accepted_number = msg.number,
                              !.accepted_value = msg.proposal],
          out |-> <<>>]
    ELSE [state |-> s, out |-> <<>>]

\* ------------------------------------------------------------ proposer

ProposerState(i) ==
    [proposal |-> proposal[i], number |-> number[i],
     acceptors |-> acceptors[i], promises |-> promises[i]]

\* Fault injection for C2: a threshold of one promise more than there are
\* acceptors.
PromiseThreshold_Over(len) == len + 1

\* math.ceil(0.5 * len(self.acceptors))
PromiseThreshold(len) == (len + 1) \div 2

\* Fault injection for C30: the value chosen being one more than the rule's.
ChooseValue_Succ(proms, default) ==
    LET vals == {proms[f].prev_acc_value : f \in DOMAIN proms} \ {None}
    IN IF vals = {} THEN default + 1
       ELSE (CHOOSE m \in vals : \A o \in vals : o <= m) + 1

\* Fault injection for C16: min for max in the choice of self.v.
ChooseValue_Min(proms, default) ==
    LET vals == {proms[f].prev_acc_value : f \in DOMAIN proms} \ {None}
    IN IF vals = {} THEN default ELSE CHOOSE m \in vals : \A o \in vals : m <= o

\* max(prev_acc_value of the promises that carry one, default=self.proposal)
SetMax(S) == CHOOSE m \in S : \A o \in S : o <= m
ChooseValue(proms, default) ==
    LET vals == {proms[f].prev_acc_value : f \in DOMAIN proms} \ {None}
    IN IF vals = {} THEN default ELSE SetMax(vals)

AcceptLetters(self, targets, msg) ==
    [k \in 1..Len(targets) |-> Letter(self, targets[k], msg)]

\* Proposer._handle_promise_message: the new state, the letters sent, and
\* whether its assertions held.
HandlePromiseMessage(self, s, msg, frm) ==
    LET proms == (frm :> msg) @@ s.promises
        s1 == [s EXCEPT !.promises = proms]
    IN IF s.acceptors = NoneList
       THEN [state |-> s1, out |-> <<>>, ok |-> FALSE]
       ELSE IF Cardinality(DOMAIN proms) = PromiseThreshold(Len(s.acceptors))
       THEN LET v == ChooseValue(proms, s.proposal)
            IN IF s.number = None \/ v = None
               THEN [state |-> s1, out |-> <<>>, ok |-> FALSE]
               ELSE [state |-> s1,
                     out |-> AcceptLetters(self, s.acceptors, AcceptMessage(s.number, v)),
                     ok |-> TRUE]
       ELSE [state |-> s1, out |-> <<>>, ok |-> TRUE]

\* Fault injection for C7: get_proposal without self.x += 1000.
GetProposal_Stuck(gx) == [p |-> gx, n |-> gx, x |-> gx]

\* IncProposalGenerator.get_proposal: (proposal, number) and the new x.
GetProposal(gx) == [p |-> gx, n |-> gx, x |-> gx + GenStep]

\* self.loop_num += 1.  Only loop_num % propose_every is ever read, so a
\* cadence within MaxLoop is kept modulo propose_every; a larger one is kept
\* exactly up to MaxLoop and stays there.
NextLoopNum(ln, every) ==
    IF every <= MaxLoop THEN (ln + 1) % every ELSE Min(ln + 1, MaxLoop)

\* ------------------------------------------------------------ history

\* The values held, at this moment, by more than half of all acceptors under
\* one proposal number.
MajorityValues(an, av) ==
    {v \in {av[a] : a \in AcceptorIds} \ {None} :
        \E n \in {an[a] : a \in AcceptorIds} :
            2 * Cardinality({a \in AcceptorIds : av[a] = v /\ an[a] = n})
                > Cardinality(AcceptorIds)}

\* ------------------------------------------------------------ initial states

\* The state after the processors are constructed: kinds[i] is the class of
\* the i-th processor registered, seeds and everys the proposers' arguments,
\* boxes the letters already delivered when the tasks start (none, unless the
\* specification feeds a processor its input).
InitWith(kinds, seeds, everys, boxes) ==
    /\ processors = kinds
    /\ id = [i \in DOMAIN kinds |-> RegisterId(i + 1)]
    /\ alive = [i \in DOMAIN kinds |-> TRUE]
    /\ mailbox = boxes
    /\ pc = [i \in DOMAIN kinds |-> "top"]
    /\ pending = [i \in DOMAIN kinds |-> <<>>]
    /\ highest_number_seen = [i \in DOMAIN kinds |-> None]
    /\ accepted_number = [i \in DOMAIN kinds |-> None]
    /\ accepted_value = [i \in DOMAIN kinds |-> None]
    /\ propose_every = [i \in DOMAIN kinds |->
                          IF kinds[i] = "Proposer" THEN everys[i] ELSE None]
    /\ x = [i \in DOMAIN kinds |-> IF kinds[i] = "Proposer" THEN seeds[i] ELSE None]
    /\ loop_num = [i \in DOMAIN kinds |->
                      IF kinds[i] \in {"Proposer", "Monitor"} THEN 0 ELSE None]
    /\ proposal = [i \in DOMAIN kinds |-> None]
    /\ number = [i \in DOMAIN kinds |-> None]
    /\ acceptors = [i \in DOMAIN kinds |-> NoneList]
    /\ promises = [i \in DOMAIN kinds |-> <<>>]
    /\ chosen = {}

\* Processor.__init__ and the subclass's __init__, for a processor constructed
\* with the coordinator: Coordinator.register appends it to the registry and
\* returns its id; its fields get their initial values.
Register(kind, seed, every) ==
    LET n == NumProcessors
    IN /\ processors' = processors @@ (n :> kind)
       /\ id' = id @@ (n :> RegisterId(n + 1))
       /\ alive' = alive @@ (n :> TRUE)
       /\ mailbox' = mailbox @@ (n :> <<>>)
       /\ pc' = pc @@ (n :> "top")
       /\ pending' = pending @@ (n :> <<>>)
       /\ highest_number_seen' = highest_number_seen @@ (n :> None)
       /\ accepted_number' = accepted_number @@ (n :> None)
       /\ accepted_value' = accepted_value @@ (n :> None)
       /\ propose_every' = propose_every @@ (n :> IF kind = "Proposer" THEN every ELSE None)
       /\ x' = x @@ (n :> IF kind = "Proposer" THEN seed ELSE None)
       /\ loop_num' = loop_num @@ (n :> IF kind \in {"Proposer", "Monitor"} THEN 0 ELSE None)
       /\ proposal' = proposal @@ (n :> None)
       /\ number' = number @@ (n :> None)
       /\ acceptors' = acceptors @@ (n :> NoneList)
       /\ promises' = promises @@ (n :> <<>>)
       /\ UNCHANGED chosen

\* ------------------------------------------------------------ run loop

\* Processor.run: chaos_monkey_should_die() fires; alive = False ends the loop.
Kill(i) ==
    /\ i \in Ids
    /\ processors[i] # "Monitor"
    /\ pc[i] = "top"
    /\ alive[i]
    /\ alive' = [alive EXCEPT ![i] = FALSE]
    /\ pc' = [pc EXCEPT ![i] = "done"]
    /\ UNCHANGED <<processors, id, mailbox, pending, acceptorVars,
                   propose_every, loop_num, proposerVars, chosen>>

\* handle_message is one functools.singledispatch object, created in
\* MessageMixin and inherited by every class, and __set_name__ registers each
\* handler in it under the type of its msg argument alone: the class whose
\* handler dispatch(type(letter.message)) returns, whatever the receiver is.
\* _handle_message_catch is left for types no class registered.
HandlerOwner(type) ==
    IF type \in {"prepare", "accept"} THEN "Acceptor"
    ELSE IF type = "promise" THEN "Proposer"
    ELSE "MessageMixin"

\* assert letter.to == self.id, then handle_message.dispatch(type(letter.message))
\* applied to the letter: the processor's new fields, the letters to send,
\* whether the task survives, and the exception that ends it if it does not.
\* A letter of a type the receiver's class does not handle runs the other
\* class's handler, which raises AttributeError on its first field access.
Dispatch(i, letter) ==
    LET msg == letter.message
        frm == letter.frm
        kind == processors[i]
        keepA == AcceptorState(i)
        keepP == ProposerState(i)
    IN IF letter.to # id[i]
       THEN [acc |-> keepA, prop |-> keepP, out |-> <<>>, ok |-> FALSE,
             raised |-> "AssertionError"]
       ELSE IF HandlerOwner(msg.type) = "MessageMixin"
       THEN [acc |-> keepA, prop |-> keepP, out |-> <<>>, ok |-> FALSE,
             raised |-> "Exception"]
       ELSE IF HandlerOwner(msg.type) # kind
       THEN [acc |-> keepA, prop |-> keepP, out |-> <<>>, ok |-> FALSE,
             raised |-> "AttributeError"]
       ELSE IF msg.type = "prepare"
       THEN LET r == HandlePrepareMessage(id[i], keepA, msg, frm)
            IN [acc |-> r.state, prop |-> keepP, out |-> r.out, ok |-> TRUE,
                raised |-> "none"]
       ELSE IF msg.type = "accept"
       THEN LET r == HandleAcceptMessage(id[i], keepA, msg, frm)
            IN [acc |-> r.state, prop |-> keepP, out |-> r.out, ok |-> TRUE,
                raised |-> "none"]
       ELSE LET r == HandlePromiseMessage(id[i], keepP, msg, frm)
            IN [acc |-> keepA, prop |-> r.state, out |-> r.out, ok |-> r.ok,
                raised |-> IF r.ok THEN "none" ELSE "AssertionError"]

\* Fault injection for C12: run() looping without reading self.alive.
InLoop_Always(i) ==
    /\ i \in Ids
    /\ processors[i] # "Monitor"
    /\ pc[i] \in {"top", "mbox", "done"}

\* Between two iterations of run() ("top") the chaos monkey either kills the
\* processor (Kill) or spares it; sparing it changes nothing, so it is part of
\* the step that follows it.  InLoop(i): run() stands before a mailbox check,
\* either that of a new iteration or that of process_mailbox's next turn.
InLoop(i) ==
    /\ i \in Ids
    /\ processors[i] # "Monitor"
    /\ alive[i]
    /\ pc[i] \in {"top", "mbox"}

\* Fault injection for C14: process_mailbox taking the newest letter
\* (pop() for popleft()).
Receive_Newest(i) ==
    /\ InLoop(i)
    /\ mailbox[i] # <<>>
    /\ LET r == Dispatch(i, mailbox[i][Len(mailbox[i])])
       IN /\ mailbox' = [mailbox EXCEPT ![i] = SubSeq(@, 1, Len(@) - 1)]
          /\ highest_number_seen' =
                [highest_number_seen EXCEPT ![i] = r.acc.highest_number_seen]
          /\ accepted_number' = [accepted_number EXCEPT ![i] = r.acc.accepted_number]
          /\ accepted_value' = [accepted_value EXCEPT ![i] = r.acc.accepted_value]
          /\ promises' = [promises EXCEPT ![i] = r.prop.promises]
          /\ pending' = [pending EXCEPT ![i] = r.out]
          /\ pc' = [pc EXCEPT ![i] = IF ~r.ok THEN "error"
                                     ELSE IF r.out = <<>> THEN "mbox" ELSE "handler"]
    /\ chosen' = chosen \cup MajorityValues(accepted_number', accepted_value')
    /\ UNCHANGED <<processors, id, alive, propose_every, x, loop_num, proposal,
                   number, acceptors>>

\* MessageMixin.process_mailbox, one turn of its loop: pop the oldest letter
\* and run its handler up to the handler's first send.
Receive(i) ==
    /\ InLoop(i)
    /\ mailbox[i] # <<>>
    /\ LET r == Dispatch(i, Head(mailbox[i]))
       IN /\ mailbox' = [mailbox EXCEPT ![i] = Tail(@)]
          /\ highest_number_seen' =
                [highest_number_seen EXCEPT ![i] = r.acc.highest_number_seen]
          /\ accepted_number' = [accepted_number EXCEPT ![i] = r.acc.accepted_number]
          /\ accepted_value' = [accepted_value EXCEPT ![i] = r.acc.accepted_value]
          /\ promises' = [promises EXCEPT ![i] = r.prop.promises]
          /\ pending' = [pending EXCEPT ![i] = r.out]
          /\ pc' = [pc EXCEPT ![i] = IF ~r.ok THEN "error"
                                     ELSE IF r.out = <<>> THEN "mbox" ELSE "handler"]
    /\ chosen' = chosen \cup MajorityValues(accepted_number', accepted_value')
    /\ UNCHANGED <<processors, id, alive, propose_every, x, loop_num, proposal,
                   number, acceptors>>

\* Where run() stands once the last letter of a handler or of generate_proposal
\* has been sent.
AfterSend(i, rest) ==
    IF rest # <<>> THEN pc[i]
    ELSE IF pc[i] = "handler" THEN "mbox" ELSE "top"

AfterSendLoopNum(i, rest) ==
    IF rest = <<>> /\ pc[i] = "action"
    THEN NextLoopNum(loop_num[i], propose_every[i])
    ELSE loop_num[i]

\* Fault injection for C13: send_letter appending the letter twice.
DeliverLetter_Twice(i) ==
    /\ i \in Ids
    /\ pc[i] \in {"handler", "action"}
    /\ pending[i] # <<>>
    /\ LET letter == Head(pending[i])
           rest == Tail(pending[i])
       IN /\ mailbox' = [mailbox EXCEPT ![letter.to] = Append(Append(@, letter), letter)]
          /\ pending' = [pending EXCEPT ![i] = rest]
          /\ pc' = [pc EXCEPT ![i] = AfterSend(i, rest)]
          /\ loop_num' = [loop_num EXCEPT ![i] = AfterSendLoopNum(i, rest)]
    /\ UNCHANGED <<processors, id, alive, acceptorVars, propose_every,
                   proposerVars, chosen>>

\* Fault injection for C28: send_letter putting the letter at the head of the
\* mailbox (appendleft for append).
DeliverLetter_Front(i) ==
    /\ i \in Ids
    /\ pc[i] \in {"handler", "action"}
    /\ pending[i] # <<>>
    /\ LET letter == Head(pending[i])
           rest == Tail(pending[i])
       IN /\ mailbox' = [mailbox EXCEPT ![letter.to] = <<letter>> \o @]
          /\ pending' = [pending EXCEPT ![i] = rest]
          /\ pc' = [pc EXCEPT ![i] = AfterSend(i, rest)]
          /\ loop_num' = [loop_num EXCEPT ![i] = AfterSendLoopNum(i, rest)]
    /\ UNCHANGED <<processors, id, alive, acceptorVars, propose_every,
                   proposerVars, chosen>>

\* send_message_to, the chaos monkey spares the letter: Coordinator.send_letter
\* appends it to the addressee's mailbox.
DeliverLetter(i) ==
    /\ i \in Ids
    /\ pc[i] \in {"handler", "action"}
    /\ pending[i] # <<>>
    /\ LET letter == Head(pending[i])
           rest == Tail(pending[i])
       IN /\ mailbox' = [mailbox EXCEPT ![letter.to] = Append(@, letter)]
          /\ pending' = [pending EXCEPT ![i] = rest]
          /\ pc' = [pc EXCEPT ![i] = AfterSend(i, rest)]
          /\ loop_num' = [loop_num EXCEPT ![i] = AfterSendLoopNum(i, rest)]
    /\ UNCHANGED <<processors, id, alive, acceptorVars, propose_every,
                   proposerVars, chosen>>

\* send_message_to, chaos_monkey_should_lose_message() fires: the letter is dropped.
LoseLetter(i) ==
    /\ i \in Ids
    /\ pc[i] \in {"handler", "action"}
    /\ pending[i] # <<>>
    /\ LET rest == Tail(pending[i])
       IN /\ pending' = [pending EXCEPT ![i] = rest]
          /\ pc' = [pc EXCEPT ![i] = AfterSend(i, rest)]
          /\ loop_num' = [loop_num EXCEPT ![i] = AfterSendLoopNum(i, rest)]
    /\ UNCHANGED <<processors, id, alive, mailbox, acceptorVars, propose_every,
                   proposerVars, chosen>>

\* Acceptor.action_loop (Processor.action_loop: pass), after the mailbox is drained.
AcceptorActionLoop(i) ==
    /\ InLoop(i)
    /\ processors[i] = "Acceptor"
    /\ mailbox[i] = <<>>
    /\ pc' = [pc EXCEPT ![i] = "top"]
    /\ UNCHANGED <<processors, id, alive, mailbox, pending, acceptorVars,
                   propose_every, loop_num, proposerVars, chosen>>

\* Proposer.action_loop when loop_num % propose_every != 0.
SkipProposal(i) ==
    /\ InLoop(i)
    /\ processors[i] = "Proposer"
    /\ mailbox[i] = <<>>
    /\ loop_num[i] % propose_every[i] # 0
    /\ loop_num' = [loop_num EXCEPT ![i] = NextLoopNum(@, propose_every[i])]
    /\ pc' = [pc EXCEPT ![i] = "top"]
    /\ UNCHANGED <<processors, id, alive, mailbox, pending, acceptorVars,
                   propose_every, proposerVars, chosen>>

\* Proposer.action_loop of a proposer whose cadence exceeds MaxLoop, in the
\* iterations loop_num = MaxLoop .. propose_every - 1: each of them finds
\* loop_num % propose_every != 0 and only adds 1 to loop_num, and the last of
\* them leaves loop_num a multiple of propose_every.  The iterations are taken
\* as one step, in a system where no letter is waiting or being sent, so that
\* nothing else happens meanwhile.
IdleUntilDue(i) ==
    /\ InLoop(i)
    /\ processors[i] = "Proposer"
    /\ propose_every[i] > MaxLoop
    /\ loop_num[i] = MaxLoop
    /\ \A j \in Ids : mailbox[j] = <<>> /\ pending[j] = <<>>
    /\ loop_num' = [loop_num EXCEPT ![i] = 0]
    /\ pc' = [pc EXCEPT ![i] = "top"]
    /\ UNCHANGED <<processors, id, alive, mailbox, pending, acceptorVars,
                   propose_every, proposerVars, chosen>>

PrepareLetters(self, targets, n) ==
    [k \in 1..Len(targets) |-> Letter(self, targets[k], PrepareMessage(n))]

\* Proposer.action_loop when loop_num % propose_every == 0: generate_proposal
\* up to its first send.
GenerateProposal(i, rounds) ==
    /\ InLoop(i)
    /\ processors[i] = "Proposer"
    /\ mailbox[i] = <<>>
    /\ loop_num[i] % propose_every[i] = 0
    /\ x[i] \div GenStep < rounds
    /\ LET g == GetProposal(x[i])
       IN /\ x' = [x EXCEPT ![i] = g.x]
          /\ IF number[i] # None /\ ~(g.n > number[i])
             THEN /\ pc' = [pc EXCEPT ![i] = "error"]
                  /\ UNCHANGED <<proposal, number, acceptors, promises, pending, loop_num>>
             ELSE \E q \in GetQuorumOfAcceptorIds :
                  /\ proposal' = [proposal EXCEPT ![i] = g.p]
                  /\ number' = [number EXCEPT ![i] = g.n]
                  /\ acceptors' = [acceptors EXCEPT ![i] = q]
                  /\ promises' = [promises EXCEPT ![i] = <<>>]
                  /\ pending' = [pending EXCEPT ![i] = PrepareLetters(id[i], q, g.n)]
                  /\ pc' = [pc EXCEPT ![i] = IF q = <<>> THEN "top" ELSE "action"]
                  /\ loop_num' = [loop_num EXCEPT ![i] =
                        IF q = <<>> THEN NextLoopNum(@, propose_every[i]) ELSE @]
    /\ UNCHANGED <<processors, id, alive, mailbox, acceptorVars, propose_every, chosen>>

\* ------------------------------------------------------------ monitor

\* util.all_equal: compare every later element with the first.
RECURSIVE AllEqualFrom(_, _, _)
AllEqualFrom(first, seq, k) ==
    IF k > Len(seq) THEN TRUE
    ELSE IF first # seq[k] THEN FALSE
    ELSE AllEqualFrom(first, seq, k + 1)

AllEqual(seq) == IF seq = <<>> THEN TRUE ELSE AllEqualFrom(seq[1], seq, 2)

\* Fault injection for C9: report_accepted joining its first two tests with
\* "or".
ReportAccepted_Or ==
    LET acc == AcceptorsFrom(0)
        values == [k \in 1..Len(acc) |-> accepted_value[acc[k]]]
        done1 == accepted_value[acc[1]] # None \/ AllEqual(values)
        done == done1 \/ ~(\E k \in 1..Len(acc) : alive[acc[k]])
    IN ~done

\* Coordinator.report_accepted: True while the simulation is to go on.  It
\* reads acceptors[0] and so raises IndexError when no acceptor is registered.
ReportAccepted ==
    LET acc == GetAcceptors
        values == [k \in 1..Len(acc) |-> accepted_value[acc[k]]]
        done0 == accepted_value[acc[1]] # None
        done1 == done0 /\ AllEqual(values)
        done == done1 \/ ~(\E k \in 1..Len(acc) : alive[acc[k]])
    IN ~done

MonitorIds == {i \in Ids : processors[i] = "Monitor"}

\* Fault injection for C22: the monitor checking on every 9th iteration.
MonitorNextLoopNum_Nine(ln) == (ln + 1) % (MonitorEvery - 1)

\* self.loop_num += 1 in Monitor.run: only loop_num % 10 is ever read, and the
\* counter is kept modulo 10.
MonitorNextLoopNum(ln) == (ln + 1) % MonitorEvery

\* Monitor.run, an iteration in which loop_num % 10 != 0.
MonitorIdle(i) ==
    /\ i \in Ids
    /\ processors[i] = "Monitor"
    /\ pc[i] = "top"
    /\ alive[i]
    /\ MonitorNextLoopNum(loop_num[i]) # 0
    /\ loop_num' = [loop_num EXCEPT ![i] = MonitorNextLoopNum(@)]
    /\ UNCHANGED <<processors, id, alive, mailbox, pc, pending, acceptorVars,
                   propose_every, proposerVars, chosen>>

\* Monitor.run, an iteration in which loop_num % 10 == 0:
\* self.alive = self.coordinator.report_accepted().
MonitorCheck(i) ==
    /\ i \in Ids
    /\ processors[i] = "Monitor"
    /\ pc[i] = "top"
    /\ alive[i]
    /\ MonitorNextLoopNum(loop_num[i]) = 0
    /\ loop_num' = [loop_num EXCEPT ![i] = MonitorNextLoopNum(@)]
    /\ IF GetAcceptors = <<>>
       THEN /\ pc' = [pc EXCEPT ![i] = "error"]
            /\ UNCHANGED alive
       ELSE /\ alive' = [alive EXCEPT ![i] = ReportAccepted]
            /\ pc' = [pc EXCEPT ![i] = IF ReportAccepted THEN "top" ELSE "done"]
    /\ UNCHANGED <<processors, id, mailbox, pending, acceptorVars,
                   propose_every, proposerVars, chosen>>

\* ------------------------------------------------------------ specifications

\* The registry after np proposers, then na acceptors, then nm monitors have
\* been constructed, in that order (run.py: run_paxos1 .. run_paxos3).
Registry(np, na, nm) ==
    [i \in 0..(np + na + nm - 1) |->
        IF i < np THEN "Proposer" ELSE IF i < np + na THEN "Acceptor" ELSE "Monitor"]

NoLetters(kinds) == [i \in DOMAIN kinds |-> <<>>]

\* Spec: Proposer(coord, gen(0), 1) and two acceptors, under message loss and
\* processor death.
Init == InitWith(Registry(1, 2, 0), (0 :> 0), (0 :> 1), NoLetters(Registry(1, 2, 0)))

Next ==
    \E i \in 0..2 :
        \/ Kill(i)
        \/ Receive(i)
        \/ DeliverLetter(i)
        \/ LoseLetter(i)
        \/ AcceptorActionLoop(i)
        \/ GenerateProposal(i, MaxRounds)

Spec == Init /\ [][Next]_vars

\* SpecNoFault: run_paxos1 with gen(5), OneShotProposer and three acceptors,
\* PROB_KILL = PROB_MESSAGE_LOSS = 0.  Every task of asyncio.gather is
\* scheduled again once its sleep ends: weak fairness of each processor.
InitNoFault ==
    InitWith(Registry(1, 3, 0), (0 :> 5), (0 :> OneShotEvery), NoLetters(Registry(1, 3, 0)))

StepNoFault(i) ==
    \/ Receive(i)
    \/ DeliverLetter(i)
    \/ AcceptorActionLoop(i)
    \/ SkipProposal(i)
    \/ GenerateProposal(i, MaxRounds)

NextNoFault == \E i \in 0..3 : StepNoFault(i)

SpecNoFault ==
    InitNoFault /\ [][NextNoFault]_vars /\ \A i \in 0..3 : WF_vars(StepNoFault(i))

\* SpecAcceptor: one acceptor (id 1) fed any letters a proposer (id 0) can
\* address to it; the proposer's own task is not run.
InputMessages ==
    {PrepareMessage(n) : n \in 0..MaxNum}
        \cup {AcceptMessage(n, v) : n \in 0..MaxNum, v \in 0..MaxNum}

InputLetters == {Letter(0, 1, m) : m \in InputMessages}

InitAcceptor ==
    \E k \in 0..MaxMailbox : \E box \in [1..k -> InputLetters] :
        InitWith(Registry(1, 1, 0), (0 :> 0), (0 :> OneShotEvery),
                 (0 :> <<>>) @@ (1 :> box))

NextAcceptor ==
    \E i \in 1..1 :
        \/ Kill(i)
        \/ Receive(i)
        \/ DeliverLetter(i)
        \/ LoseLetter(i)
        \/ AcceptorActionLoop(i)

SpecAcceptor == InitAcceptor /\ [][NextAcceptor]_vars

\* SpecGenerator: a proposer of cadence 1 or 2 with any seed up to MaxSeed
\* and one acceptor, under loss and death.
InitGenerator ==
    \E seed \in 0..MaxSeed : \E every \in 1..2 :
        InitWith(Registry(1, 1, 0), (0 :> seed), (0 :> every), NoLetters(Registry(1, 1, 0)))

NextGenerator ==
    \E i \in 0..1 :
        \/ Kill(i)
        \/ Receive(i)
        \/ DeliverLetter(i)
        \/ LoseLetter(i)
        \/ AcceptorActionLoop(i)
        \/ SkipProposal(i)
        \/ GenerateProposal(i, GenRounds)

SpecGenerator == InitGenerator /\ [][NextGenerator]_vars

\* SpecQuorum: a OneShotProposer (id 0) with 1..MaxAcceptors acceptors
\* registered, under message loss; only the proposer's task is run, the
\* acceptors' mailboxes fill up.
InitQuorum ==
    \E c \in 1..MaxAcceptors :
        InitWith(Registry(1, c, 0), (0 :> 0), (0 :> OneShotEvery), NoLetters(Registry(1, c, 0)))

NextQuorum ==
    \E i \in 0..0 :
        \/ DeliverLetter(i)
        \/ LoseLetter(i)
        \/ SkipProposal(i)
        \/ GenerateProposal(i, MaxRounds)

SpecQuorum == InitQuorum /\ [][NextQuorum]_vars

\* SpecMonitor: Proposer(coord, gen(0), 1), two acceptors and a Monitor,
\* under processor death.
InitMonitor == InitWith(Registry(1, 2, 1), (0 :> 0), (0 :> 1), NoLetters(Registry(1, 2, 1)))

NextMonitor ==
    \E i \in 0..3 :
        \/ Kill(i)
        \/ Receive(i)
        \/ DeliverLetter(i)
        \/ AcceptorActionLoop(i)
        \/ GenerateProposal(i, MaxRounds)
        \/ MonitorIdle(i)
        \/ MonitorCheck(i)

SpecMonitor == InitMonitor /\ [][NextMonitor]_vars

\* SpecOneShot: OneShotProposer(coord, gen(0)) and three acceptors, under
\* message loss and processor death.
InitOneShot ==
    InitWith(Registry(1, 3, 0), (0 :> 0), (0 :> OneShotEvery), NoLetters(Registry(1, 3, 0)))

NextOneShot ==
    \E i \in 0..3 :
        \/ Kill(i)
        \/ Receive(i)
        \/ DeliverLetter(i)
        \/ LoseLetter(i)
        \/ AcceptorActionLoop(i)
        \/ SkipProposal(i)
        \/ GenerateProposal(i, MaxRounds)

SpecOneShot == InitOneShot /\ [][NextOneShot]_vars

\* SpecRegister: processors of any class are constructed one after another,
\* up to MaxProcessors, while the proposers already constructed run; every
\* letter sent is lost.
InitRegister ==
    InitWith(Registry(0, 0, 0), <<>>, <<>>, NoLetters(Registry(0, 0, 0)))

Construct(kind) ==
    /\ NumProcessors < MaxProcessors
    /\ Register(kind, 0, 1)

NextRegister ==
    \/ \E kind \in {"Proposer", "Acceptor", "Monitor"} : Construct(kind)
    \/ \E i \in 0..(MaxProcessors - 1) :
          \/ Kill(i)
          \/ GenerateProposal(i, MaxRounds)
          \/ LoseLetter(i)

SpecRegister == InitRegister /\ [][NextRegister]_vars

\* SpecLifetime: run_paxos0, OneShotProposer(coord, gen(0)) and one acceptor,
\* under message loss and processor death, over the proposer's whole lifetime:
\* the iterations beyond MaxLoop are taken by IdleUntilDue.
InitLifetime ==
    InitWith(Registry(1, 1, 0), (0 :> 0), (0 :> OneShotEvery), NoLetters(Registry(1, 1, 0)))

NextLifetime ==
    \E i \in 0..1 :
        \/ Kill(i)
        \/ Receive(i)
        \/ DeliverLetter(i)
        \/ LoseLetter(i)
        \/ AcceptorActionLoop(i)
        \/ SkipProposal(i)
        \/ IdleUntilDue(i)
        \/ GenerateProposal(i, MaxRounds)

SpecLifetime == InitLifetime /\ [][NextLifetime]_vars

\* SpecMonitorFair: OneShotProposer(coord, gen(0)), two acceptors and a
\* Monitor, under message loss and processor death.  The monitor's task is
\* scheduled again whenever its sleep ends: weak fairness of its iterations.
InitMonitorFair ==
    InitWith(Registry(1, 2, 1), (0 :> 0), (0 :> OneShotEvery), NoLetters(Registry(1, 2, 1)))

MonitorStep(i) == MonitorIdle(i) \/ MonitorCheck(i)

NextMonitorFair ==
    \E i \in 0..3 :
        \/ Kill(i)
        \/ Receive(i)
        \/ DeliverLetter(i)
        \/ LoseLetter(i)
        \/ AcceptorActionLoop(i)
        \/ SkipProposal(i)
        \/ GenerateProposal(i, MaxRounds)
        \/ MonitorStep(i)

SpecMonitorFair ==
    InitMonitorFair /\ [][NextMonitorFair]_vars /\ WF_vars(MonitorStep(3))

\* SpecNoAcceptor: two proposers of cadence 2 and a Monitor, no acceptor
\* registered, under processor death.  No letter is ever sent: every quorum
\* is the empty list.
InitNoAcceptor ==
    InitWith(Registry(2, 0, 1), (0 :> 0) @@ (1 :> 1), (0 :> 2) @@ (1 :> 2),
             NoLetters(Registry(2, 0, 1)))

NextNoAcceptor ==
    \E i \in 0..2 :
        \/ Kill(i)
        \/ SkipProposal(i)
        \/ GenerateProposal(i, MaxRounds)
        \/ MonitorIdle(i)
        \/ MonitorCheck(i)

SpecNoAcceptor == InitNoAcceptor /\ [][NextNoAcceptor]_vars

\* SpecDispatch: Proposer(coord, gen(0), 1) (id 0) and one acceptor (id 1),
\* each started with up to two letters of any message type from the other in
\* its mailbox, under message loss and processor death.
DispatchMessages ==
    {PrepareMessage(0), AcceptMessage(0, 0), PromiseMessage(0, None, None)}

DispatchBoxes(frm, to) ==
    UNION {[1..k -> {Letter(frm, to, m) : m \in DispatchMessages}] : k \in 0..2}

InitDispatch ==
    \E b0 \in DispatchBoxes(1, 0) : \E b1 \in DispatchBoxes(0, 1) :
        InitWith(Registry(1, 1, 0), (0 :> 0), (0 :> 1), (0 :> b0) @@ (1 :> b1))

NextDispatch ==
    \E i \in 0..1 :
        \/ Kill(i)
        \/ Receive(i)
        \/ DeliverLetter(i)
        \/ LoseLetter(i)
        \/ AcceptorActionLoop(i)
        \/ GenerateProposal(i, MaxRounds)

SpecDispatch == InitDispatch /\ [][NextDispatch]_vars

\* SpecWiring: Proposer(coord, gen(0), 1), OneShotProposer(coord, gen(1)),
\* one acceptor and a Monitor, under message loss and processor death.
InitWiring ==
    InitWith(Registry(2, 1, 1), (0 :> 0) @@ (1 :> 1), (0 :> 1) @@ (1 :> OneShotEvery),
             NoLetters(Registry(2, 1, 1)))

NextWiring ==
    \E i \in 0..3 :
        \/ Kill(i)
        \/ Receive(i)
        \/ DeliverLetter(i)
        \/ LoseLetter(i)
        \/ AcceptorActionLoop(i)
        \/ SkipProposal(i)
        \/ GenerateProposal(i, MaxRounds)
        \/ MonitorIdle(i)
        \/ MonitorCheck(i)

SpecWiring == InitWiring /\ [][NextWiring]_vars

\* ------------------------------------------------------------ claims

\* C1 (safety of consensus): once more than half of all acceptors have held
\* the same non-null accepted_value under the same proposal number, no
\* acceptor afterwards comes to hold a different non-null accepted_value.
\* Stated on the steps: a step that changes an acceptor's accepted_value sets
\* it to the value chosen before, if one was.
C1_Safety ==
    [][\A a \in AcceptorIds :
          accepted_value'[a] # accepted_value[a]
              => \A v \in chosen : accepted_value'[a] = v]_vars

\* C2 (deterministic convergence without faults): with no loss and no death,
\* one proposer generating (5, 5) and three acceptors, every fair execution
\* reaches quiescence (all mailboxes empty, no handler in progress) with all
\* three acceptors holding accepted_value = 5; and whenever the system is
\* quiescent in the round of number 5, the three hold 5.
Quiescent ==
    \A i \in Ids : mailbox[i] = <<>> /\ pending[i] = <<>> /\ pc[i] \in {"top", "mbox"}

AllAccepted(v) == \A a \in AcceptorIds : accepted_value[a] = v

C2_Convergence ==
    /\ <>(Quiescent /\ AllAccepted(5))
    /\ []((Quiescent /\ \E p \in ProposerIds : number[p] = 5) => AllAccepted(5))

C2_Witness ==
    Cardinality(AcceptorIds) = 3 /\ Quiescent /\ AllAccepted(5)

\* The step pops a letter of a's mailbox: a's process_mailbox handles it.
Handled(a) == Len(mailbox'[a]) < Len(mailbox[a])

\* C4 (acceptor promise monotonicity): highest_number_seen never decreases,
\* and an acceptor sends a Promise only when handling a Prepare{n} with
\* highest_number_seen null or < n just before.
C4_PromiseMonotonic ==
    [][\A a \in AcceptorIds :
          /\ highest_number_seen[a] # None
                => /\ highest_number_seen'[a] # None
                   /\ highest_number_seen'[a] >= highest_number_seen[a]
          /\ \A k \in DOMAIN pending'[a] :
                (pending'[a] # pending[a] /\ pending'[a][k].message.type = "promise")
                => /\ Handled(a)
                   /\ Head(mailbox[a]).message.type = "prepare"
                   /\ pending'[a][k].message.number = Head(mailbox[a]).message.number
                   /\ \/ highest_number_seen[a] = None
                      \/ highest_number_seen[a] < Head(mailbox[a]).message.number]_vars

\* A promise for 1 was sent and a Prepare{0} is the next letter.
C4_Witness ==
    /\ processors = Registry(1, 1, 0)
    /\ highest_number_seen[1] = 1
    /\ Len(mailbox[0]) = 1
    /\ mailbox[1] # <<>>
    /\ Head(mailbox[1]).message = PrepareMessage(0)

\* C5 (acceptor accept rule): handling Accept{n, v} sets accepted_number = n
\* and accepted_value = v iff n = highest_number_seen; any other Accept leaves
\* the three fields unchanged and sends nothing; no other step changes
\* accepted_number or accepted_value.
C5_AcceptRule ==
    [][\A a \in AcceptorIds :
          LET isAccept == Handled(a) /\ Head(mailbox[a]).message.type = "accept"
              m == Head(mailbox[a]).message
          IN /\ (isAccept /\ m.number = highest_number_seen[a])
                    => /\ accepted_number'[a] = m.number
                       /\ accepted_value'[a] = m.proposal
                       /\ highest_number_seen'[a] = highest_number_seen[a]
             /\ (isAccept /\ m.number # highest_number_seen[a])
                    => /\ AcceptorState(a)' = AcceptorState(a)
                       /\ pending'[a] = <<>>
             /\ ~isAccept
                    => /\ accepted_number'[a] = accepted_number[a]
                       /\ accepted_value'[a] = accepted_value[a]]_vars

\* An Accept{1, 0} was taken, and an Accept{0, 1} is the next letter.
C5_Witness ==
    /\ processors = Registry(1, 1, 0)
    /\ highest_number_seen[1] = 1
    /\ accepted_number[1] = 1
    /\ accepted_value[1] = 0
    /\ mailbox[1] # <<>>
    /\ Head(mailbox[1]).message = AcceptMessage(0, 1)

\* C6 (accept idempotence): for every acceptor state and every Accept{n, v}
\* with n = highest_number_seen, handling it twice in a row leaves the state
\* reached by handling it once.
C6_AcceptIdempotent ==
    \A a \in AcceptorIds : \A n \in 0..MaxNum, v \in 0..MaxNum :
        n = highest_number_seen[a]
        => LET once == HandleAcceptMessage(a, AcceptorState(a), AcceptMessage(n, v), 0)
               twice == HandleAcceptMessage(a, once.state, AcceptMessage(n, v), 0)
           IN twice.state = once.state /\ twice.out = <<>>

\* The acceptor took Accept{1, 1} over an earlier value and the same Accept is
\* the next letter.
C6_Witness ==
    /\ processors = Registry(1, 1, 0)
    /\ highest_number_seen[1] = 1
    /\ accepted_number[1] = 1
    /\ accepted_value[1] = 1
    /\ mailbox[1] # <<>>
    /\ Head(mailbox[1]).message = AcceptMessage(1, 1)

\* C7 (proposal-number monotonicity): each get_proposal returns a number
\* strictly greater than the one before, every round a proposer starts uses
\* a number strictly greater than its previous round's, and the assertion
\* n > self.number of generate_proposal never fails.
C7_GeneratorMonotonic ==
    [][\A p \in ProposerIds :
          (\/ x'[p] # x[p]
           \/ number'[p] # number[p]
           \/ (pc'[p] = "error" /\ pc[p] # "error" /\ mailbox[p] = <<>>))
          => /\ GetProposal(x'[p]).n > GetProposal(x[p]).n
             /\ number'[p] = GetProposal(x[p]).n
             /\ number[p] # None => number'[p] > number[p]
             /\ pc'[p] # "error"]_vars

\* A proposer is in its third round.
C7_Witness ==
    \E p \in ProposerIds : number[p] >= 2 * GenStep /\ pc[p] # "error"

IsQuorum(q, ids) ==
    /\ \A i, j \in DOMAIN q : i # j => q[i] # q[j]
    /\ Range(q) \subseteq ids
    /\ 2 * Len(q) > Cardinality(ids)
    /\ Len(q) <= Cardinality(ids)

\* C8 (quorum majority bound): with c >= 1 acceptors registered, every result
\* of get_quorum_of_acceptor_ids is a duplicate-free list of registered
\* acceptor ids of size > c/2 and <= c, so any two results share an acceptor.
C8_QuorumMajority ==
    LET ids == AcceptorIds
        quorums == GetQuorumOfAcceptorIds
    IN Cardinality(ids) >= 1
       => /\ \A q \in quorums : IsQuorum(q, ids)
          /\ \A q1, q2 \in quorums : Range(q1) \cap Range(q2) # {}
          /\ \A p \in ProposerIds : acceptors[p] # NoneList => IsQuorum(acceptors[p], ids)

\* generate_proposal has stored a quorum of two acceptors.
C8_Witness ==
    \E p \in ProposerIds :
        acceptors[p] # NoneList /\ Cardinality(AcceptorIds) = 2 /\ Len(acceptors[p]) = 2

\* The verdict of the convergence check as the claim words it.
VerdictDone ==
    \/ /\ \E a \in AcceptorIds : accepted_value[a] # None
       /\ \A a, b \in AcceptorIds : accepted_value[a] = accepted_value[b]
    \/ \A a \in AcceptorIds : ~alive[a]

\* The step is the monitor's iteration that calls report_accepted.
Checks(m) == alive[m] /\ MonitorNextLoopNum(loop_num[m]) = 0 /\ loop_num'[m] # loop_num[m]

\* C9 (convergence verdict): with an acceptor registered, report_accepted
\* returns False (done) exactly when some acceptor has a non-null accepted
\* value and all acceptors have the same one, or no acceptor is alive; the
\* monitor's alive flag after its check is that result.
C9_Verdict ==
    /\ [](AcceptorIds # {} => (ReportAccepted <=> ~VerdictDone))
    /\ [][\A m \in MonitorIds :
            Checks(m) => (alive'[m] <=> ~VerdictDone) /\ pc'[m] # "error"]_vars

\* The monitor has stopped on two live acceptors that agree.
C9_Witness ==
    \E m \in MonitorIds :
        /\ ~alive[m]
        /\ \A a \in AcceptorIds : alive[a] /\ accepted_value[a] = 0

\* C10 (monitor halts on agreement of the alive acceptors): where an acceptor
\* is alive and all alive acceptors hold the same non-null accepted value,
\* the check returns done, whatever dead acceptors hold.
AliveAgree ==
    /\ \E a \in AcceptorIds : alive[a]
    /\ \A a, b \in AcceptorIds :
          (alive[a] /\ alive[b])
          => accepted_value[a] # None /\ accepted_value[a] = accepted_value[b]

C10_HaltsOnAliveAgreement ==
    [][\A m \in MonitorIds : (Checks(m) /\ AliveAgree) => ~alive'[m]]_vars

\* C11 (the monitor terminates the simulation): once the monitor's check has
\* reported done and Monitor.run has exited, no proposer or acceptor handles
\* a letter, sends one or starts a round: mailboxes, letters being sent and
\* protocol fields stay as they are.
MonitorExited == \E m \in MonitorIds : ~alive[m] /\ pc[m] = "done"

C11_MonitorStopsAll ==
    [][MonitorExited
          => UNCHANGED <<mailbox, pending, acceptorVars, proposerVars>>]_vars

IsPrefix(s, t) == Len(s) <= Len(t) /\ \A k \in DOMAIN s : s[k] = t[k]

\* C12 (DEAD is terminal): a proposer or acceptor whose alive flag is false
\* stays so; it pops no letter, sends none, runs no periodic action, and its
\* protocol state never changes; letters may still be appended to its mailbox.
C12_DeadIsTerminal ==
    [][\A i \in Ids :
          (processors[i] # "Monitor" /\ ~alive[i])
          => /\ ~alive'[i]
             /\ IsPrefix(mailbox[i], mailbox'[i])
             /\ pending[i] = <<>> /\ pending'[i] = <<>>
             /\ AcceptorState(i)' = AcceptorState(i)
             /\ ProposerState(i)' = ProposerState(i)
             /\ x'[i] = x[i]
             /\ loop_num'[i] = loop_num[i]
             /\ pc'[i] = pc[i]]_vars

\* A killed acceptor that had promised, with a letter left in its mailbox.
C12_Witness ==
    \E a \in AcceptorIds :
        ~alive[a] /\ highest_number_seen[a] # None /\ mailbox[a] # <<>>

\* The step is a send_message_to of processor i: the first of the letters it
\* has left to send leaves that list.
Sends(i) == pending[i] # <<>> /\ pending'[i] = Tail(pending[i])

\* C13 (delivery and loss): a send_letter call either drops the letter, and
\* no mailbox changes, or appends it once to the tail of the mailbox of
\* letter.to and changes no other mailbox; it changes no protocol state, the
\* letter is not sent again, and a mailbox grows in no other way.
C13_DeliveryAndLoss ==
    [][/\ \A i \in Ids :
            Sends(i)
            => LET letter == Head(pending[i])
               IN /\ \/ mailbox' = mailbox
                     \/ mailbox' = [mailbox EXCEPT ![letter.to] = Append(@, letter)]
                  /\ UNCHANGED <<acceptorVars, proposerVars>>
       /\ \A j \in Ids :
            mailbox'[j] # mailbox[j]
            => \/ mailbox[j] # <<>> /\ mailbox'[j] = Tail(mailbox[j])
               \/ \E i \in Ids :
                     /\ Sends(i)
                     /\ Head(pending[i]).to = j
                     /\ mailbox'[j] = Append(mailbox[j], Head(pending[i]))]_vars

\* The proposer has sent the Prepare of its round to every acceptor:
\* acceptor 1 holds it, acceptor 2 never got it.
C13_Witness ==
    /\ processors = Registry(1, 3, 0)
    /\ x[0] = GenStep /\ pending[0] = <<>> /\ pc[0] = "top"
    /\ mailbox[1] = <<Letter(0, 1, PrepareMessage(0))>>
    /\ mailbox[2] = <<>> /\ highest_number_seen[2] = None

\* C14 (mailbox discipline): a mailbox loses a letter only when its owner, not
\* inside a handler, pops the oldest one and handles it; from the pop until
\* the handler's last send the owner pops nothing more and runs no periodic
\* action, while letters appended meanwhile keep their arrival order.
C14_MailboxDiscipline ==
    [][\A j \in Ids :
          /\ \/ IsPrefix(mailbox[j], mailbox'[j])
             \/ /\ mailbox[j] # <<>>
                /\ mailbox'[j] = Tail(mailbox[j])
                /\ alive[j] /\ pc[j] \in {"top", "mbox"} /\ pending[j] = <<>>
                /\ LET r == Dispatch(j, Head(mailbox[j]))
                   IN /\ AcceptorState(j)' = r.acc
                      /\ ProposerState(j)' = r.prop
                      /\ pending'[j] = r.out
                /\ \A k \in Ids \ {j} : pc'[k] = pc[k] /\ pending'[k] = pending[k]
          /\ pc[j] = "handler"
                => /\ IsPrefix(mailbox[j], mailbox'[j])
                   /\ x'[j] = x[j] /\ number'[j] = number[j]
                   /\ loop_num'[j] = loop_num[j]
                   /\ \/ pc'[j] = "handler" /\ pending'[j] # <<>>
                      \/ pc'[j] = "mbox" /\ pending'[j] = <<>>]_vars

\* An acceptor is sending the Promise of its handler while the Accept the
\* proposer is broadcasting waits in its mailbox.
C14_Witness ==
    \E a \in AcceptorIds :
        /\ pc[a] = "handler" /\ pending[a] # <<>>
        /\ Len(mailbox[a]) = 1
        /\ mailbox[a][1].message.type = "accept"
        /\ pc[0] = "handler" /\ pending[0] # <<>>

\* C15 (actor identities): the k-th processor registered, counted from 0,
\* has id k; the registry only grows at its end, so ids are dense, never
\* reused and never change, and processors[i].id = i for every registered
\* processor, dead ones included.
C15_Identities ==
    /\ [](/\ Ids = 0..(NumProcessors - 1)
          /\ \A i \in Ids : id[i] = i)
    /\ [][/\ \A i \in Ids :
               i \in Ids' /\ id'[i] = id[i] /\ processors'[i] = processors[i]
          /\ Ids' # Ids => Ids' = Ids \cup {NumProcessors}]_vars

\* Three processors are registered, the first of them dead.
C15_Witness ==
    /\ NumProcessors = 3
    /\ ~alive[0] /\ id[0] = 0
    /\ id[2] = 2 /\ alive[2]

\* The value of the phase-2 rule: the greatest non-null prev_acc_value among
\* the promises recorded, or the proposer's own value if there is none.
ValueRule(proms, own) ==
    LET vals == {proms[f].prev_acc_value : f \in DOMAIN proms} \ {None}
    IN IF vals = {} THEN own ELSE CHOOSE m \in vals : \A o \in vals : o <= m

\* Accept{number, value} to every target of p's round, in the order stored.
AcceptBroadcast(p, proms) ==
    [k \in 1..Len(acceptors[p]) |->
        Letter(id[p], acceptors[p][k],
               AcceptMessage(number[p], ValueRule(proms, proposal[p])))]

\* count = ceil(0.5 * len)
Reaches(count, len) == 2 * count >= len /\ 2 * (count - 1) < len

\* Records of promises for round n from any acceptors, with any of the values
\* a generator of seed 0 hands out in its first rounds, or none.
PrevValues == {None} \cup {k * GenStep : k \in 0..MaxNum}
PromiseMaps(n) ==
    UNION {[D -> {PromiseMessage(n, v, v) : v \in PrevValues}] : D \in SUBSET AcceptorIds}

\* C16 (phase-2 value rule): when handling a Promise brings the number of
\* promises recorded to the threshold, the proposer sends
\* Accept{number, value} to every id of self.acceptors, with value the
\* greatest non-null prev_acc_value recorded, or its own proposal if none.
\* Stated on the steps taken, and on _handle_promise_message applied, in
\* every round once generate_proposal has started it, to every record of
\* promises and every further Promise.
C16_ValueRule ==
    /\ [][\A p \in ProposerIds :
            (/\ Handled(p)
             /\ Head(mailbox[p]).message.type = "promise"
             /\ acceptors[p] # NoneList
             /\ Reaches(Cardinality(DOMAIN promises'[p]), Len(acceptors[p])))
            => pending'[p] = AcceptBroadcast(p, promises'[p])]_vars
    /\ [](\A p \in ProposerIds :
            (number[p] # None /\ promises[p] = <<>>)
            => \A proms \in PromiseMaps(number[p]) :
               \A f \in AcceptorIds : \A v \in PrevValues :
                  LET r == HandlePromiseMessage(
                              id[p], [ProposerState(p) EXCEPT !.promises = proms],
                              PromiseMessage(number[p], v, v), f)
                  IN Reaches(Cardinality(DOMAIN r.state.promises), Len(acceptors[p]))
                     => r.ok /\ r.out = AcceptBroadcast(p, r.state.promises))

\* Two promises are recorded and the proposer is sending Accept{5, 5} to all
\* three acceptors.
C16_Witness ==
    \E p \in ProposerIds :
        /\ Cardinality(DOMAIN promises[p]) = 2
        /\ Len(acceptors[p]) = 3
        /\ pc[p] = "handler"
        /\ pending[p] = AcceptBroadcast(p, promises[p])

\* C17 (phase 2 fires at most once per round): a Promise handled when the
\* promises recorded since generate_proposal already number the threshold or
\* more is recorded and causes no Accept broadcast.
C17_PhaseTwoOnce ==
    [][\A p \in ProposerIds :
          (/\ Handled(p)
           /\ Head(mailbox[p]).message.type = "promise"
           /\ acceptors[p] # NoneList
           /\ 2 * Cardinality(DOMAIN promises[p]) >= Len(acceptors[p]))
          => /\ Head(mailbox[p]).frm \in DOMAIN promises'[p]
             /\ pending'[p] = <<>>]_vars

\* The step is a Promise handled by p that makes it broadcast Accept.
Broadcasts(p) ==
    /\ Handled(p)
    /\ Head(mailbox[p]).message.type = "promise"
    /\ pending'[p] # <<>>

\* C18 (the promise threshold is a majority): whenever a proposer broadcasts
\* Accept, the acceptors it has recorded promises from are strictly more than
\* half of self.acceptors.
C18_ThresholdIsMajority ==
    [][\A p \in ProposerIds :
          Broadcasts(p)
          => 2 * Cardinality(DOMAIN promises'[p]) > Len(acceptors[p])]_vars

\* C19 (onPrepare step): handling Prepare{n} from f with highest_number_seen
\* null or < n sets highest_number_seen = n and sends one
\* Promise{n, accepted_number, accepted_value} to f, the pair being the one
\* held when the Prepare is handled; otherwise nothing is sent and the state
\* is unchanged; accepted_number and accepted_value change in neither case.
C19_OnPrepare ==
    [][\A a \in AcceptorIds :
          (Handled(a) /\ Head(mailbox[a]).message.type = "prepare")
          => LET n == Head(mailbox[a]).message.number
                 f == Head(mailbox[a]).frm
             IN /\ accepted_number'[a] = accepted_number[a]
                /\ accepted_value'[a] = accepted_value[a]
                /\ IF highest_number_seen[a] = None \/ highest_number_seen[a] < n
                   THEN /\ highest_number_seen'[a] = n
                        /\ pending'[a] =
                              <<Letter(id[a], f,
                                  PromiseMessage(n, accepted_number[a], accepted_value[a]))>>
                   ELSE /\ highest_number_seen'[a] = highest_number_seen[a]
                        /\ pending'[a] = <<>>]_vars

\* The acceptor, having accepted (0, 1), is sending Promise{1, 0, 1}.
C19_Witness ==
    /\ processors = Registry(1, 1, 0)
    /\ highest_number_seen[1] = 1
    /\ pending[1] = <<Letter(1, 0, PromiseMessage(1, 0, 1))>>

\* C20 (quorums contain only live acceptors): every id that
\* get_quorum_of_acceptor_ids returns to generate_proposal is that of an
\* acceptor whose alive flag is true at the call.
C20_QuorumIsAlive ==
    [][\A p \in ProposerIds :
          number'[p] # number[p]
          => \A k \in DOMAIN acceptors'[p] : alive[acceptors'[p][k]]]_vars

\* The step of p is an iteration's action_loop, or starts it: it calls
\* generate_proposal where loop_num is a multiple of the cadence, taking a
\* higher number, emptying promises and sending one Prepare to each acceptor
\* of the quorum, and calls nothing elsewhere.
CadenceRule(p) ==
    /\ x'[p] # x[p]
          => /\ loop_num[p] % propose_every[p] = 0
             /\ number[p] # None => number'[p] > number[p]
             /\ promises'[p] = <<>>
             /\ pending'[p] = PrepareLetters(id[p], acceptors'[p], number'[p])
    /\ (x'[p] = x[p] /\ loop_num'[p] # loop_num[p] /\ pending[p] = <<>>)
          => loop_num[p] % propose_every[p] # 0

\* C21 (re-proposal cadence): a proposer invokes generate_proposal in the
\* iterations of its run loop in which loop_num is a multiple of its cadence
\* and in no other; each invocation takes a number above the previous one,
\* empties promises and sends one Prepare to each acceptor of its quorum; a
\* OneShotProposer invokes generate_proposal once in its lifetime.
C21_Cadence ==
    [][\A p \in ProposerIds :
          /\ CadenceRule(p)
          /\ (x'[p] # x[p] /\ propose_every[p] = OneShotEvery) => number[p] = None]_vars

\* C22 (monitor exit): the monitor calls report_accepted in every 10th
\* iteration of its loop and in no other; its alive flag becomes false only
\* by such a call returning done, never by a chaos kill, and Monitor.run
\* leaves its loop right after; if from some point on report_accepted would
\* always return done, a fairly scheduled monitor eventually exits.
C22_MonitorExit ==
    /\ [][\A m \in MonitorIds :
            /\ loop_num'[m] # loop_num[m]
                  => /\ alive[m]
                     /\ loop_num'[m] = (loop_num[m] + 1) % MonitorEvery
            /\ (loop_num[m] = MonitorEvery - 1 /\ loop_num'[m] # loop_num[m])
                  => /\ alive'[m] = ReportAccepted
                     /\ pc'[m] = IF ReportAccepted THEN "top" ELSE "done"
            /\ (alive'[m] # alive[m] \/ pc'[m] # pc[m])
                  => /\ loop_num[m] = MonitorEvery - 1
                     /\ loop_num'[m] # loop_num[m]
                     /\ ~ReportAccepted]_vars
    /\ <>[](~ReportAccepted) => <>(\A m \in MonitorIds : ~alive[m] /\ pc[m] = "done")

\* The monitor has left its loop, both acceptors having been killed without
\* a value.
C22_Witness ==
    \E m \in MonitorIds :
        /\ ~alive[m] /\ pc[m] = "done"
        /\ \A a \in AcceptorIds : ~alive[a] /\ accepted_value[a] = None

\* C23 (convergence check with no acceptors): with no acceptor registered,
\* report_accepted returns done and raises nothing: the monitor's check sets
\* its alive flag to false and Monitor.run ends normally.
C23_NoAcceptorsIsDone ==
    [][\A m \in MonitorIds :
          (/\ AcceptorIds = {}
           /\ loop_num[m] = MonitorEvery - 1
           /\ loop_num'[m] # loop_num[m])
          => ~alive'[m] /\ pc'[m] = "done"]_vars

\* The class that defines a handler for letters of this type.
RoleOf(type) == IF type = "promise" THEN "Proposer" ELSE "Acceptor"

\* C24 (unregistered dispatch is fatal): when a processor pops a letter of a
\* type its own class has no handler for, dispatch resolves to
\* _handle_message_catch, whose Exception ends the processor's task; no
\* handler of another class is run on the letter, and the letter is not
\* dropped in silence.
C24_UnregisteredIsFatal ==
    [][\A i \in Ids :
          (/\ Handled(i)
           /\ Head(mailbox[i]).to = id[i]
           /\ RoleOf(Head(mailbox[i]).message.type) # processors[i])
          => /\ pc'[i] = "error"
             /\ HandlerOwner(Head(mailbox[i]).message.type) = "MessageMixin"
             /\ Dispatch(i, Head(mailbox[i])).raised = "Exception"]_vars

\* C25 (only current-round promises are counted): every Promise recorded in a
\* proposer's promises carries the proposer's current number; a Promise that
\* answers a superseded round is not recorded for the new round.
C25_CurrentRoundPromises ==
    \A p \in ProposerIds :
        \A f \in DOMAIN promises[p] : promises[p][f].number = number[p]

\* The (number, value) pairs of the Accept messages that are being sent or
\* wait in a mailbox, and of what the acceptors hold.
AcceptPairs ==
    {<<l.message.number, l.message.proposal>> :
        l \in {l \in UNION {Range(mailbox[i]) \cup Range(pending[i]) : i \in Ids} :
                  l.message.type = "accept"}}
    \cup {<<accepted_number[a], accepted_value[a]>> :
            a \in {a \in AcceptorIds : accepted_number[a] # None}}

\* C26 (one value per proposal number): with proposal numbers distinct across
\* proposers, all Accept messages of one number carry one value, so two
\* acceptors with equal accepted_number have equal accepted_value.
C26_OneValuePerNumber ==
    \A s, t \in AcceptPairs : s[1] = t[1] => s[2] = t[2]

\* Every letter that waits in a mailbox or is still to be sent.
LettersInFlight == UNION {Range(mailbox[i]) \cup Range(pending[i]) : i \in Ids}

\* C27 (no fatal error is reachable): with proposers, at least one acceptor
\* and a monitor, under any interleaving, loss and death, Prepare and Accept
\* letters are addressed to acceptors only, Promise letters to a proposer that
\* has started a round only, every letter in a mailbox is addressed to the
\* mailbox's owner, the monitor's mailbox stays empty, every letter about to
\* be popped is handled without an exception, and no task has ended with one.
C27_NoFatalError ==
    /\ \A l \in LettersInFlight :
          /\ l.to \in Ids
          /\ l.message.type \in {"prepare", "accept"} => processors[l.to] = "Acceptor"
          /\ l.message.type = "promise"
                => processors[l.to] = "Proposer" /\ acceptors[l.to] # NoneList
    /\ \A i \in Ids :
          /\ \A k \in DOMAIN mailbox[i] : mailbox[i][k].to = id[i]
          /\ processors[i] = "Monitor" => mailbox[i] = <<>>
          /\ mailbox[i] # <<>> => Dispatch(i, Head(mailbox[i])).raised = "none"
          /\ pc[i] # "error"

\* Both proposers have started a round, the first of them its second; one
\* of them has a Promise waiting while it sends, and the monitor has seen the
\* acceptor hold a value and stopped.
C27_Witness ==
    /\ processors = Registry(2, 1, 1)
    /\ number[0] = GenStep /\ number[1] = 1
    /\ \E p \in ProposerIds :
          /\ mailbox[p] # <<>> /\ Head(mailbox[p]).message.type = "promise"
          /\ pending[p] # <<>>
    /\ \E m \in MonitorIds : ~alive[m] /\ pc[m] = "done"
    /\ \E a \in AcceptorIds : alive[a] /\ accepted_value[a] # None

\* The place of a letter in the order in which its sender issues its sends to
\* one recipient: a proposer sends the Prepare of a round before the Accepts
\* of that round and both before the Prepare of the next round; an acceptor
\* sends its Promises by rising number.
IssueRank(l) == 2 * l.message.number + (IF l.message.type = "accept" THEN 1 ELSE 0)

\* C28 (per-sender FIFO): the letters of one sender to one recipient that are
\* not dropped are appended to the recipient's mailbox in the order in which
\* the sender issued the sends, and the recipient handles them in that order:
\* it always pops a letter that no letter of the same sender precedes.  An
\* Accept{n} is never ahead of the same proposer's Prepare{n} in an
\* acceptor's mailbox, nor handled while that Prepare is still to be sent.
C28_PerSenderFifo ==
    /\ [](\A r \in Ids :
            /\ \A j, k \in DOMAIN mailbox[r] :
                  (j < k /\ mailbox[r][j].frm = mailbox[r][k].frm)
                  => IssueRank(mailbox[r][j]) <= IssueRank(mailbox[r][k])
            /\ \A s \in Ids : \A l \in Range(pending[s]) :
                  l.to = id[r]
                  => \A k \in DOMAIN mailbox[r] :
                        mailbox[r][k].frm = l.frm
                        => IssueRank(mailbox[r][k]) <= IssueRank(l))
    /\ [][\A r \in Ids :
            /\ Len(mailbox'[r]) < Len(mailbox[r])
                  => \E k \in DOMAIN mailbox[r] :
                        /\ mailbox'[r] = SubSeq(mailbox[r], 1, k - 1)
                                             \o SubSeq(mailbox[r], k + 1, Len(mailbox[r]))
                        /\ \A j \in 1..(k - 1) : mailbox[r][j].frm # mailbox[r][k].frm
            /\ Len(mailbox'[r]) > Len(mailbox[r])
                  => \E s \in Ids :
                        /\ Sends(s)
                        /\ mailbox'[r] = Append(mailbox[r], Head(pending[s]))]_vars

\* The acceptor's mailbox holds the first proposer's Prepare{1000}, then the
\* second proposer's Prepare{1}, then the Accept{1000} that a promise of the
\* round before has set off at the first proposer.
C28_Witness ==
    \E a \in AcceptorIds :
        mailbox[a] = <<Letter(0, id[a], PrepareMessage(GenStep)),
                       Letter(1, id[a], PrepareMessage(1)),
                       Letter(0, id[a], AcceptMessage(GenStep, GenStep))>>

\* C29 (acceptor state invariant): accepted_number is null exactly when
\* accepted_value is null; when they are not null, highest_number_seen is
\* not null and accepted_number <= highest_number_seen; accepted_number never
\* decreases and never returns to null.
C29_AcceptorInvariant ==
    /\ [](\A a \in AcceptorIds :
            /\ accepted_number[a] = None <=> accepted_value[a] = None
            /\ accepted_number[a] # None
                  => /\ highest_number_seen[a] # None
                     /\ accepted_number[a] <= highest_number_seen[a])
    /\ [][\A a \in AcceptorIds :
            accepted_number[a] # None
            => accepted_number'[a] # None /\ accepted_number'[a] >= accepted_number[a]]_vars

\* The acceptor holds (0, 1) from the round before the one it has promised,
\* with nothing left to handle or send.
C29_Witness ==
    /\ processors = Registry(1, 1, 0)
    /\ highest_number_seen[1] = 1
    /\ accepted_number[1] = 0
    /\ accepted_value[1] = 1
    /\ mailbox[1] = <<>> /\ pending[1] = <<>>

\* The (proposal, number) pairs the proposers' generators have handed out so
\* far: a generator that stands at x has returned the pairs of x - 1000,
\* x - 2000, ... down to its seed.
GeneratedBy(p) ==
    {GetProposal(x[p] - k * GenStep) : k \in 1..(x[p] \div GenStep)}

GeneratedValues == {g.p : g \in UNION {GeneratedBy(p) : p \in ProposerIds}}
GeneratedNumbers == {g.n : g \in UNION {GeneratedBy(p) : p \in ProposerIds}}

\* C30 (validity): every value carried by an Accept message and every
\* non-null accepted_value is the value of a proposal some proposer has
\* generated; every Accept's number and every non-null highest_number_seen
\* and accepted_number is a number some proposer has generated.
C30_Validity ==
    /\ \A l \in LettersInFlight :
          l.message.type = "accept"
          => /\ l.message.proposal \in GeneratedValues
             /\ l.message.number \in GeneratedNumbers
    /\ \A a \in AcceptorIds :
          /\ accepted_value[a] # None => accepted_value[a] \in GeneratedValues
          /\ accepted_number[a] # None => accepted_number[a] \in GeneratedNumbers
          /\ highest_number_seen[a] # None => highest_number_seen[a] \in GeneratedNumbers

\* The acceptor holds, under the first proposer's number 1000, the value 1
\* that the second proposer generated.
C30_Witness ==
    \E a \in AcceptorIds : accepted_number[a] = GenStep /\ accepted_value[a] = 1

====
